---- MODULE Spec2Model ----
(***************************************************************************)
(* Frame lifecycle and GPU synchronisation of lsv::Renderer                *)
(* (src/src/Renderer.cpp, src/src/Renderer.h, src/src/main.cpp).           *)
(*                                                                         *)
(* The control thread (main -> init -> run -> draw -> cleanup) is one      *)
(* process whose position is pc.  The GPU queue is a second process that   *)
(* executes queued operations in order (GpuExecute).  The results of the   *)
(* Vulkan calls the code branches on (acquire, present, submit, fence      *)
(* wait) and the polled quit event are inputs chosen by the environment.   *)
(***************************************************************************)
EXTENDS Integers, Sequences, FiniteSets, TLC

\* ---------------------------------------------------------------- bounds
\* number of frames after which the window collaborator requests quit
MaxFrames == 2
\* number of suboptimal / out-of-date results the surface reports in a run
MaxStale == 2
\* largest number of images a built chain may have
MaxImages == 2
\* largest number of transitionImageLayout calls recorded in a row
MaxBarriers == 2
\* number of calls of init and cleanup a caller makes after its first init
MaxCalls == 2

\* ------------------------------------------------------ program constants
FRAMES_IN_FLIGHT == 2
\* initFrameDatas: VkCommandBufferAllocateInfo::commandBufferCount
commandBufferCount == 2

\* results of vkAcquireNextImageKHR / vkQueuePresentKHR / vkQueueSubmit
VK_SUCCESS == "VK_SUCCESS"
VK_SUBOPTIMAL_KHR == "VK_SUBOPTIMAL_KHR"
VK_ERROR_OUT_OF_DATE_KHR == "VK_ERROR_OUT_OF_DATE_KHR"
VK_TIMEOUT == "VK_TIMEOUT"
VK_ERROR_DEVICE_LOST == "VK_ERROR_DEVICE_LOST"
NoResult == "none"

AcquireResults == {VK_SUCCESS, VK_SUBOPTIMAL_KHR, VK_ERROR_OUT_OF_DATE_KHR, VK_TIMEOUT}
PresentResults == {VK_SUCCESS, VK_SUBOPTIMAL_KHR, VK_ERROR_OUT_OF_DATE_KHR, VK_ERROR_DEVICE_LOST}

Slots == 0 .. (FRAMES_IN_FLIGHT - 1)

\* handle of the i-th per-image object of the chain built as generation gen
Handle(gen, i) == <<gen, i>>
NullHandle == <<0, 0>>

\* the two draw images (handles that belong to no chain)
SceneDrawImage == Handle(0, 1)
MainDrawImage == Handle(0, 2)

\* image layouts draw and createDrawImages use
Layouts == {"UNDEFINED", "GENERAL", "COLOR_ATTACHMENT_OPTIMAL",
            "SHADER_READ_ONLY_OPTIMAL", "TRANSFER_SRC_OPTIMAL",
            "TRANSFER_DST_OPTIMAL", "PRESENT_SRC_KHR"}
VK_REMAINING_MIP_LEVELS == "VK_REMAINING_MIP_LEVELS"
VK_REMAINING_ARRAY_LAYERS == "VK_REMAINING_ARRAY_LAYERS"
VK_PIPELINE_STAGE_ALL_COMMANDS_BIT == "VK_PIPELINE_STAGE_ALL_COMMANDS_BIT"

\* window sizes: the one RenderConfig asks for, and any other size the user
\* may have given the resizable window
WindowSizes == {"configured", "resized"}

VARIABLES
    pc,                       \* position of the control thread
    exitCode,                 \* result of main
    isInitialized,            \* Renderer::isInitialized
    frameNumber,              \* Renderer::frameNumber
    swapchainStale,           \* Renderer::swapchainStale
    shouldQuit,               \* local of Renderer::run
    frames,                   \* Renderer::frames, per slot
    currentFrame,             \* local of draw: slot bound at its first line
    swapchainImageIndex,      \* local of draw
    acquireResult,            \* local of draw
    presentResult,            \* local of draw
    swapchainGen,             \* identity of the chain handle (0: none)
    swapchainImages,          \* Renderer::swapchainImages
    swapchainImageViews,      \* Renderer::swapchainImageViews
    renderFinishedSemaphores, \* Renderer::renderFinishedSemaphores
    imageState,               \* presentation engine: state of each image
    signaledSemaphores,       \* render-finished handles currently signaled
    gpuQueue,                 \* operations queued on graphicsQueue
    submitCount,              \* observed: vkQueueSubmit calls made by draw
    drawCount,                \* observed: draw calls that returned
    staleCount,               \* observed: frames that reported staleness
    rebuildCount,             \* observed: rebuildSwapchain calls
    loopRebuilds,             \* observed: rebuilds in this loop iteration
    lastDraw,                 \* observed: how the latest draw call ended
    abortedFrame,             \* observed: frameNumber of the latest aborted frame
    immediate,                \* immediateCmdFence / immediateCmdBuffer
    immCaller,                \* which call of immediateSubmit is running
    staging,                  \* uploadMesh: the staging buffer
    stagingDestroys,          \* observed: destroyBuffer(staging) calls
    live,                     \* device: chain objects created, not destroyed
    chainLog,                 \* observed: device calls of the latest (re)build
    uncheckedFailures,        \* observed: failed calls whose result init drops
    cleanupCalls,             \* observed: Renderer::cleanup calls by main
    apiCalls,                 \* observed: further calls of init and cleanup
    owned,                    \* objects init created that cleanup has to destroy
    cleanupLog,               \* observed: calls cleanup made, in order
    swapchainExtent,          \* Renderer::swapchainExtent
    mainDrawExtent,           \* Renderer::mainDrawExtent / mainDrawImage.imageExtent
    recorded,                 \* commands in the command buffer draw recorded last
    steps,                    \* observed: steps the current draw call has taken
    windowSize                \* size SDL_GetWindowSize reported when last called

vars == <<pc, exitCode, isInitialized, frameNumber, swapchainStale, shouldQuit,
          frames, currentFrame, swapchainImageIndex, acquireResult,
          presentResult, swapchainGen, swapchainImages, swapchainImageViews,
          renderFinishedSemaphores, imageState, signaledSemaphores, gpuQueue,
          submitCount, drawCount, staleCount, rebuildCount, loopRebuilds,
          lastDraw, abortedFrame, immediate, immCaller, staging,
          stagingDestroys, live, chainLog, uncheckedFailures, cleanupCalls,
          apiCalls,
          owned, cleanupLog, swapchainExtent, mainDrawExtent, recorded,
          steps, windowSize>>

chainVars == <<swapchainGen, swapchainImages, swapchainImageViews,
               renderFinishedSemaphores>>
localVars == <<currentFrame, swapchainImageIndex, acquireResult, presentResult>>
obsVars == <<submitCount, drawCount, staleCount, rebuildCount, loopRebuilds,
             lastDraw, abortedFrame>>
immVars == <<immediate, immCaller, staging, stagingDestroys>>
devVars == <<live, chainLog>>
mainObs == <<uncheckedFailures, cleanupCalls, apiCalls>>
ownVars == <<owned, cleanupLog>>
sizeVars == <<swapchainExtent, mainDrawExtent, windowSize>>
drawVars == <<recorded, steps>>

\* ------------------------------------------------------------- helpers

\* Renderer::getCurrentFrame: index of the slot for frame number n
GetCurrentFrame(n) == n % FRAMES_IN_FLIGHT

\* a staleness test that forgets the suboptimal code
IsStaleOutOfDateOnly(r) == r = VK_ERROR_OUT_OF_DATE_KHR

\* the test draw applies to acquireResult and to presentResult
IsStale(r) == r = VK_SUBOPTIMAL_KHR \/ r = VK_ERROR_OUT_OF_DATE_KHR

\* a VK_CHECK that lets VK_TIMEOUT pass
VkCheckThrowsErrorsOnly(r) == r \notin {VK_SUCCESS, VK_TIMEOUT}

\* VK_CHECK: any non-zero VkResult throws
VkCheckThrows(r) == r # VK_SUCCESS

\* a draw that forgets to advance the frame counter
AdvanceFrameMissing(n) == n

\* frameNumber++ at the end of draw
AdvanceFrame(n) == n + 1

\* slot objects whose fence is created without the signaled flag
NewFrameDataUnsignaled(gen) ==
    [fence |-> FALSE, imageAvailable |-> FALSE, cmd |-> "initial", gen |-> gen,
     cmdBuffers |-> commandBufferCount]

\* the slot objects initFrameDatas creates: fence created signaled,
\* semaphore unsignaled, command buffer in the initial state
NewFrameData(gen) ==
    [fence |-> TRUE, imageAvailable |-> FALSE, cmd |-> "initial", gen |-> gen,
     cmdBuffers |-> commandBufferCount]

InitFrameDatas(gen) == [s \in Slots |-> NewFrameData(gen)]

\* std::vector::resize(n): truncate, or pad with null handles
Resize(s, n) == [k \in 1 .. n |-> IF k <= Len(s) THEN s[k] ELSE NullHandle]

\* the loop of createSwapchain over i = 0 .. size-1 (k = i + 1): create the
\* semaphore in place, then push_back a copy of it
RECURSIVE CreateSemaphoresLoop(_, _, _, _)
CreateSemaphoresLoop(s, k, n, gen) ==
    IF k > n THEN s
    ELSE CreateSemaphoresLoop(
             Append([s EXCEPT ![k] = Handle(gen, k)], Handle(gen, k)),
             k + 1, n, gen)

\* renderFinishedSemaphores after createSwapchain built n images
CreateRenderFinishedSemaphores(old, n, gen) ==
    CreateSemaphoresLoop(Resize(old, n), 1, n, gen)

\* images / views vkb::Swapchain returns for a chain of n images
ChainObjects(n, gen) == [k \in 1 .. n |-> Handle(gen, k)]

\* a rebuild that builds the new chain with the extent of the old one
RebuildExtentKept(size, extent) == extent

\* rebuildSwapchain, lines 656-658: SDL_GetWindowSize reads the size the
\* window has now, and that size goes to createSwapchain as the extent
RebuildExtent(size, extent) == size

\* a rebuild that does not wait for the device
DeviceWaitIdleSkipped == TRUE

\* vkDeviceWaitIdle returns once nothing is queued or executing
DeviceWaitIdle == gpuQueue = <<>>

\* a run loop that never rebuilds
StaleCheckNever == FALSE

\* a run loop that rebuilds in every iteration
StaleCheckAlways == TRUE

\* `if (swapchainStale)` of Renderer::run
StaleCheck == swapchainStale

\* a wait that returns without looking at the fence
FenceWaitSkipped(slot) == TRUE

\* vkWaitForFences(commandsCompleteFence) returns VK_SUCCESS
FenceWaitReturns(slot) == frames[slot].fence

\* a draw that never resets the fence it waited on
ResetFenceMissing(f) == f

\* vkResetFences: the state of the fence afterwards (unsignaled)
ResetFence(f) == FALSE

\* a rebuild that keeps the slots it has
RebuildKeepsFrameDatas(old, gen) == old

\* destroyFrameDatas then initFrameDatas, as rebuildSwapchain calls them
RebuildFrameDatas(old, gen) == InitFrameDatas(gen)

\* one call the device receives: create or destroy of a chain object
DeviceCall(op, kind, h) == [op |-> op, kind |-> kind, h |-> h]

\* the loop of destroySwapchain over i = 0 .. images.size()-1 (k = i + 1)
RECURSIVE DestroySwapchainLoop(_, _, _, _)
DestroySwapchainLoop(views, sems, k, n) ==
    IF k > n THEN <<>>
    ELSE <<DeviceCall("destroy", "view", views[k]),
           DeviceCall("destroy", "semaphore", sems[k])>>
         \o DestroySwapchainLoop(views, sems, k + 1, n)

\* a destroySwapchain that walks the whole signal list
DestroySwapchainCallsWholeList(images, views, sems, gen) ==
    [k \in 1 .. Len(images) |-> DeviceCall("destroy", "view", views[k])]
    \o [k \in 1 .. Len(sems) |-> DeviceCall("destroy", "semaphore", sems[k])]
    \o <<DeviceCall("destroy", "swapchain", Handle(gen, 0))>>

\* destroySwapchain: the per-image loop, then vkDestroySwapchainKHR
DestroySwapchainCalls(images, views, sems, gen) ==
    DestroySwapchainLoop(views, sems, 1, Len(images))
    \o <<DeviceCall("destroy", "swapchain", Handle(gen, 0))>>

\* createSwapchain: the builder creates the chain and its n views, then the
\* loop creates n semaphores
CreateSwapchainCalls(n, gen) ==
    <<DeviceCall("create", "swapchain", Handle(gen, 0))>>
    \o [k \in 1 .. n |-> DeviceCall("create", "view", Handle(gen, k))]
    \o [k \in 1 .. n |-> DeviceCall("create", "semaphore", Handle(gen, k))]

\* a rebuild that builds the new chain without destroying the old one
RebuildCallsNoDestroy(images, views, sems, gen, n) ==
    CreateSwapchainCalls(n, gen + 1)

\* rebuildSwapchain: destroySwapchain, then createSwapchain
RebuildCalls(images, views, sems, gen, n) ==
    DestroySwapchainCalls(images, views, sems, gen)
    \o CreateSwapchainCalls(n, gen + 1)

\* the objects alive after the device has served the calls, in order
RECURSIVE ApplyCalls(_, _)
ApplyCalls(calls, alive) ==
    IF calls = <<>> THEN alive
    ELSE LET c == Head(calls) IN
         ApplyCalls(Tail(calls),
                    IF c.op = "create" THEN alive \cup {<<c.kind, c.h>>}
                    ELSE alive \ {<<c.kind, c.h>>})

\* an immediateSubmit that does not wait for its fence
ImmediateWaitSkipped == TRUE

\* vkWaitForFences(immediateCmdFence) returns VK_SUCCESS
ImmediateWaitReturns == immediate.fence

\* where immediateSubmit returns to: createDrawImages or uploadMesh
ImmediateReturn(caller) ==
    IF caller = "images" THEN "init_frames" ELSE "mesh_destroy"

\* an upload that forgets destroyBuffer(staging)
DestroyBufferMissing(st) == st

\* destroyBuffer: the state of the buffer afterwards
DestroyBuffer(st) == "destroyed"

\* a main whose catch block returns success
ExitCodeAfterCatchSuccess == "EXIT_SUCCESS"

\* main: the value returned from the catch block
ExitCodeAfterCatch == "EXIT_FAILURE"

\* destroyFrameDatas as cleanup calls it: pool, semaphore, fence per slot
DestroyFrameDatasCalls == <<"frames">>

\* destroyDrawImages
DestroyDrawImagesCalls ==
    <<"sceneDrawImage.sampler", "sceneDrawImage.imageView",
      "sceneDrawImage.image", "mainDrawImage.imageView",
      "mainDrawImage.image">>

\* a cleanup that destroys the allocator before the render targets
CleanupCallsAllocatorEarly ==
    <<"vkDeviceWaitIdle", "opaquePipeline", "opaquePipelineLayout">>
    \o DestroyFrameDatasCalls
    \o <<"imgui", "imguiDescriptorPool", "swapchain", "allocator">>
    \o DestroyDrawImagesCalls
    \o <<"immediateCmdFence", "immediateCmdPool", "device",
         "surface", "debugMessenger", "instance", "window">>

\* Renderer::cleanup after its isInitialized test: the calls it makes, in
\* order ("swapchain" stands for the calls of destroySwapchain)
CleanupCalls ==
    <<"vkDeviceWaitIdle", "opaquePipeline", "opaquePipelineLayout">>
    \o DestroyFrameDatasCalls
    \o <<"imgui", "imguiDescriptorPool", "swapchain">>
    \o DestroyDrawImagesCalls
    \o <<"immediateCmdFence", "immediateCmdPool", "allocator", "device",
         "surface", "debugMessenger", "instance", "window">>

\* what the parts of init create
PlatformObjects ==
    {"window", "instance", "debugMessenger", "surface", "device", "allocator"}
ImmediateObjects ==
    {"imguiDescriptorPool", "imgui", "immediateCmdFence", "immediateCmdPool"}
DrawImageObjects(mainCreated) ==
    {"mainDrawImage.imageView", "sceneDrawImage.image",
     "sceneDrawImage.imageView", "sceneDrawImage.sampler"}
    \cup (IF mainCreated THEN {"mainDrawImage.image"} ELSE {})
PipelineObjects == {"opaquePipelineLayout", "opaquePipeline"}

\* positions of the control thread inside Renderer::init
InitPositions == {"init", "init_swapchain", "init_immediate", "init_images",
                  "imm_submit", "imm_wait", "init_frames", "init_pipelines",
                  "init_mesh", "mesh_destroy", "init_done"}

\* positions of init at which a checked call can fail and throw
InitThrowPositions == {"init", "init_swapchain", "init_immediate",
                       "init_images", "imm_submit", "init_frames",
                       "init_pipelines"}

ImmediateOps == {k \in 1 .. Len(gpuQueue) : gpuQueue[k].kind = "immediate"}

\* `while (!shouldQuit)` evaluated after draw returned
LoopNext(quit) == IF quit THEN "cleanup" ELSE "poll"

\* Renderer::createSubresourceRange
CreateSubresourceRange(aspectFlags) ==
    [aspectMask |-> aspectFlags,
     baseMipLevel |-> 0, levelCount |-> VK_REMAINING_MIP_LEVELS,
     baseArrayLayer |-> 0, layerCount |-> VK_REMAINING_ARRAY_LAYERS]

\* a command other than a barrier, in the shape of a recorded command
Command(op, image, src, layout) ==
    [op |-> op, image |-> image, src |-> src,
     oldLayout |-> layout, newLayout |-> layout,
     srcStageMask |-> "none", dstStageMask |-> "none",
     subresourceRange |-> CreateSubresourceRange("COLOR")]

\* a transition helper whose barrier starts at the top of the pipe only
TransitionImageLayoutTopOfPipe(image, oldLayout, newLayout) ==
    <<[op |-> "barrier", image |-> image, src |-> NullHandle,
       oldLayout |-> oldLayout, newLayout |-> newLayout,
       srcStageMask |-> "VK_PIPELINE_STAGE_TOP_OF_PIPE_BIT",
       dstStageMask |-> VK_PIPELINE_STAGE_ALL_COMMANDS_BIT,
       subresourceRange |-> CreateSubresourceRange("COLOR")]>>

\* Renderer::transitionImageLayout: the commands it records into cmd, one
\* vkCmdPipelineBarrier2 with imageMemoryBarrierCount = 1
TransitionImageLayout(image, oldLayout, newLayout) ==
    <<[op |-> "barrier", image |-> image, src |-> NullHandle,
       oldLayout |-> oldLayout, newLayout |-> newLayout,
       srcStageMask |-> VK_PIPELINE_STAGE_ALL_COMMANDS_BIT,
       dstStageMask |-> VK_PIPELINE_STAGE_ALL_COMMANDS_BIT,
       subresourceRange |-> CreateSubresourceRange("COLOR")]>>

\* Renderer::blitImageToImage: one vkCmdBlitImage2 that declares the source
\* in the transfer-source and the destination in the transfer-destination
\* layout
BlitImageToImage(src, dst) ==
    <<[op |-> "blit", image |-> dst, src |-> src,
       oldLayout |-> "TRANSFER_DST_OPTIMAL",
       newLayout |-> "TRANSFER_DST_OPTIMAL",
       srcLayout |-> "TRANSFER_SRC_OPTIMAL",
       srcStageMask |-> "none", dstStageMask |-> "none",
       subresourceRange |-> CreateSubresourceRange("COLOR")]>>

\* createDrawImages, lines 595-599: the transition it records for
\* immediateSubmit
SetupCommands ==
    TransitionImageLayout(SceneDrawImage, "UNDEFINED",
                          "SHADER_READ_ONLY_OPTIMAL")

\* a scene pass that leaves the scene image in the render-target layout
RecordSceneNoShaderRead ==
    TransitionImageLayout(SceneDrawImage, "UNDEFINED", "GENERAL")
    \o <<Command("clear", SceneDrawImage, NullHandle, "GENERAL")>>
    \o TransitionImageLayout(SceneDrawImage, "GENERAL",
                             "COLOR_ATTACHMENT_OPTIMAL")
    \o <<Command("render", SceneDrawImage, NullHandle,
                 "COLOR_ATTACHMENT_OPTIMAL")>>

\* the scene pass of draw, lines 196-244
RecordScene ==
    TransitionImageLayout(SceneDrawImage, "UNDEFINED", "GENERAL")
    \o <<Command("clear", SceneDrawImage, NullHandle, "GENERAL")>>
    \o TransitionImageLayout(SceneDrawImage, "GENERAL",
                             "COLOR_ATTACHMENT_OPTIMAL")
    \o <<Command("render", SceneDrawImage, NullHandle,
                 "COLOR_ATTACHMENT_OPTIMAL")>>
    \o TransitionImageLayout(SceneDrawImage, "COLOR_ATTACHMENT_OPTIMAL",
                             "SHADER_READ_ONLY_OPTIMAL")

\* the gui pass of draw, lines 247-283; the GUI's draw data holds the
\* "viewport" image of run (line 380), which samples the scene image through
\* sceneDrawSet, registered for the shader-read-only layout (601-603)
RecordGui ==
    TransitionImageLayout(MainDrawImage, "UNDEFINED", "GENERAL")
    \o <<Command("clear", MainDrawImage, NullHandle, "GENERAL")>>
    \o TransitionImageLayout(MainDrawImage, "GENERAL",
                             "COLOR_ATTACHMENT_OPTIMAL")
    \o <<Command("render", MainDrawImage, NullHandle,
                 "COLOR_ATTACHMENT_OPTIMAL"),
         Command("sample", SceneDrawImage, NullHandle,
                 "SHADER_READ_ONLY_OPTIMAL")>>

\* a present pass that leaves the image in the transfer layout
RecordPresentNoFinalTransition(image) ==
    TransitionImageLayout(MainDrawImage, "COLOR_ATTACHMENT_OPTIMAL",
                          "TRANSFER_SRC_OPTIMAL")
    \o TransitionImageLayout(image, "UNDEFINED", "TRANSFER_DST_OPTIMAL")
    \o BlitImageToImage(MainDrawImage, image)

\* the last part of draw's recording, lines 286-299, for the acquired image
RecordPresent(image) ==
    TransitionImageLayout(MainDrawImage, "COLOR_ATTACHMENT_OPTIMAL",
                          "TRANSFER_SRC_OPTIMAL")
    \o TransitionImageLayout(image, "UNDEFINED", "TRANSFER_DST_OPTIMAL")
    \o BlitImageToImage(MainDrawImage, image)
    \o TransitionImageLayout(image, "TRANSFER_DST_OPTIMAL", "PRESENT_SRC_KHR")

\* everything draw records between vkBeginCommandBuffer and
\* vkEndCommandBuffer
RecordCommands(image) == RecordScene \o RecordGui \o RecordPresent(image)

\* a draw that submits the command buffer without recording it again
AfterAcquireSkipsRecord == "submit"

\* draw after an acquisition that did not report staleness: recording
AfterAcquire == "record"

\* submitInfo.pSignalSemaphores for image index i
SignalSemaphore(i) == renderFinishedSemaphores[i + 1]

\* a present that waits on a signal chosen by slot instead of by image
PresentWaitSemaphoreOfSlot(i) == renderFinishedSemaphores[currentFrame + 1]

\* presentInfo.pWaitSemaphores for image index i
PresentWaitSemaphore(i) == renderFinishedSemaphores[i + 1]

SubmitOps == {k \in 1 .. Len(gpuQueue) : gpuQueue[k].kind = "submit"}

\* a throw that unwinds to main's catch: EXIT_FAILURE, no cleanup call
Throw ==
    /\ pc' = "fatal"
    /\ exitCode' = ExitCodeAfterCatch

\* ------------------------------------------------------------- Init

Init ==
    /\ pc = "init"
    /\ exitCode = "running"
    /\ isInitialized = FALSE
    /\ frameNumber = 0
    /\ swapchainStale = FALSE
    /\ shouldQuit = FALSE
    /\ frames = [s \in Slots |-> [fence |-> FALSE, imageAvailable |-> FALSE,
                                  cmd |-> "none", gen |-> 0,
                                  cmdBuffers |-> 0]]
    /\ currentFrame = 0
    /\ swapchainImageIndex = -1
    /\ acquireResult = NoResult
    /\ presentResult = NoResult
    /\ swapchainGen = 0
    /\ swapchainImages = <<>>
    /\ swapchainImageViews = <<>>
    /\ renderFinishedSemaphores = <<>>
    /\ imageState = <<>>
    /\ signaledSemaphores = {}
    /\ gpuQueue = <<>>
    /\ submitCount = 0
    /\ drawCount = 0
    /\ staleCount = 0
    /\ rebuildCount = 0
    /\ loopRebuilds = 0
    /\ lastDraw = "none"
    /\ abortedFrame = -1
    /\ immediate = [created |-> FALSE, fence |-> FALSE, cmd |-> "none"]
    /\ immCaller = "none"
    /\ staging = "none"
    /\ stagingDestroys = 0
    /\ live = {}
    /\ chainLog = <<>>
    /\ uncheckedFailures = {}
    /\ cleanupCalls = 0
    /\ apiCalls = 0
    /\ owned = {}
    /\ cleanupLog = <<>>
    /\ swapchainExtent = "none"
    /\ mainDrawExtent = "none"
    /\ windowSize = "none"
    /\ recorded = <<>>
    /\ steps = <<>>

\* ------------------------------------------------------------- actions

\* createSwapchain(width, height): the surface decides the image count n
CreateSwapchain(n, gen) ==
    /\ swapchainGen' = gen
    /\ swapchainImages' = ChainObjects(n, gen)
    /\ swapchainImageViews' = ChainObjects(n, gen)
    /\ renderFinishedSemaphores' =
           CreateRenderFinishedSemaphores(renderFinishedSemaphores, n, gen)
    /\ imageState' = [k \in 1 .. n |-> "free"]
    /\ signaledSemaphores' = {}

\* init, lines 42-113: window, instance, surface, device, queue, allocator
InitPlatform ==
    /\ pc = "init"
    /\ ~isInitialized
    /\ pc' = "init_swapchain"
    /\ owned' = owned \cup PlatformObjects
    /\ mainDrawExtent' = "configured"
    /\ windowSize' = "configured"
    /\ UNCHANGED <<exitCode, isInitialized, frameNumber, swapchainStale,
                   shouldQuit, frames, localVars, chainVars, imageState,
                   signaledSemaphores, gpuQueue, obsVars, immVars, devVars,
                   mainObs, cleanupLog, swapchainExtent, drawVars>>

\* init, line 115: createSwapchain(windowExtent)
InitSwapchain ==
    /\ pc = "init_swapchain"
    /\ \E n \in 1 .. MaxImages :
           /\ CreateSwapchain(n, 1)
           /\ chainLog' = CreateSwapchainCalls(n, 1)
           /\ live' = ApplyCalls(CreateSwapchainCalls(n, 1), live)
    /\ pc' = "init_immediate"
    /\ owned' = owned \cup {"swapchain"}
    /\ swapchainExtent' = "configured"
    /\ UNCHANGED <<exitCode, isInitialized, frameNumber, swapchainStale,
                   shouldQuit, frames, localVars, gpuQueue, obsVars, immVars,
                   mainObs, cleanupLog, mainDrawExtent, windowSize,
                   drawVars>>

\* init, lines 117-119: initImgui, initImmediateCommands (the fence is
\* created without the signaled flag)
InitImmediateCommands ==
    /\ pc = "init_immediate"
    /\ immediate' = [created |-> TRUE, fence |-> FALSE, cmd |-> "initial"]
    /\ pc' = "init_images"
    /\ owned' = owned \cup ImmediateObjects
    /\ UNCHANGED <<exitCode, isInitialized, frameNumber, swapchainStale,
                   shouldQuit, frames, localVars, chainVars, imageState,
                   signaledSemaphores, gpuQueue, obsVars, immCaller, staging,
                   stagingDestroys, devVars, mainObs, cleanupLog, sizeVars,
                   drawVars>>

\* init, line 121: createDrawImages up to its call of immediateSubmit.  The
\* results of the two vmaCreateImage calls are dropped, so a failed image
\* creation goes on.
CreateDrawImages ==
    /\ pc = "init_images"
    /\ \E created \in BOOLEAN :
           /\ uncheckedFailures' =
                  IF created THEN uncheckedFailures
                  ELSE uncheckedFailures \cup {"vmaCreateImage"}
           /\ owned' = owned \cup DrawImageObjects(created)
    /\ immCaller' = "images"
    /\ pc' = "imm_submit"
    /\ UNCHANGED <<exitCode, isInitialized, frameNumber, swapchainStale,
                   shouldQuit, frames, localVars, chainVars, imageState,
                   signaledSemaphores, gpuQueue, obsVars, immediate, staging,
                   stagingDestroys, devVars, cleanupCalls, apiCalls,
                   cleanupLog,
                   sizeVars, drawVars>>

\* immediateSubmit up to vkQueueSubmit: reset the fence, reset and record
\* the command buffer, submit it with immediateCmdFence
ImmediateSubmit ==
    /\ pc = "imm_submit"
    /\ immediate' = [immediate EXCEPT !.fence = ResetFence(immediate.fence),
                                      !.cmd = "pending"]
    /\ gpuQueue' = Append(gpuQueue,
           [kind |-> "immediate", slot |-> -1, image |-> -1, frame |-> -1,
            sem |-> NullHandle])
    /\ pc' = "imm_wait"
    /\ UNCHANGED <<exitCode, isInitialized, frameNumber, swapchainStale,
                   shouldQuit, frames, localVars, chainVars, imageState,
                   signaledSemaphores, obsVars, immCaller, staging,
                   stagingDestroys, devVars, mainObs, ownVars,
                   sizeVars, drawVars>>

\* immediateSubmit: the wait on immediateCmdFence returns; back in the caller
ImmediateWait ==
    /\ pc = "imm_wait"
    /\ ImmediateWaitReturns
    /\ pc' = ImmediateReturn(immCaller)
    /\ immCaller' = "none"
    /\ UNCHANGED <<exitCode, isInitialized, frameNumber, swapchainStale,
                   shouldQuit, frames, localVars, chainVars, imageState,
                   signaledSemaphores, gpuQueue, obsVars, immediate, staging,
                   stagingDestroys, devVars, mainObs, ownVars,
                   sizeVars, drawVars>>

\* immediateSubmit: the fence is still unsignaled when the wait's bound
\* expires; VK_CHECK decides on VK_TIMEOUT
ImmediateWaitTimeout ==
    /\ pc = "imm_wait"
    /\ ~immediate.fence
    /\ IF VkCheckThrows(VK_TIMEOUT)
       THEN Throw /\ UNCHANGED immCaller
       ELSE /\ pc' = ImmediateReturn(immCaller)
            /\ immCaller' = "none"
            /\ UNCHANGED exitCode
    /\ UNCHANGED <<isInitialized, frameNumber, swapchainStale, shouldQuit,
                   frames, localVars, chainVars, imageState,
                   signaledSemaphores, gpuQueue, obsVars, immediate, staging,
                   stagingDestroys, devVars, mainObs, ownVars,
                   sizeVars, drawVars>>

\* init, line 123: initFrameDatas
InitFrames ==
    /\ pc = "init_frames"
    /\ frames' = InitFrameDatas(1)
    /\ owned' = owned \cup {"frames"}
    /\ pc' = "init_pipelines"
    /\ UNCHANGED <<exitCode, isInitialized, frameNumber, swapchainStale,
                   shouldQuit, localVars, chainVars, imageState,
                   signaledSemaphores, gpuQueue, obsVars, immVars, devVars,
                   mainObs, cleanupLog, sizeVars, drawVars>>

\* init, line 125: buildPipelines
BuildPipelines ==
    /\ pc = "init_pipelines"
    /\ pc' = "init_mesh"
    /\ owned' = owned \cup PipelineObjects
    /\ UNCHANGED <<exitCode, isInitialized, frameNumber, swapchainStale,
                   shouldQuit, frames, localVars, chainVars, imageState,
                   signaledSemaphores, gpuQueue, obsVars, immVars, devVars,
                   mainObs, cleanupLog, sizeVars, drawVars>>

\* uploadMesh up to its call of immediateSubmit (the init of
\* src/unnamed/part_001 uploads one mesh): the staging buffer is created
UploadMeshBegin ==
    /\ pc = "init_mesh"
    /\ staging' = "live"
    /\ immCaller' = "mesh"
    /\ pc' = "imm_submit"
    /\ UNCHANGED <<exitCode, isInitialized, frameNumber, swapchainStale,
                   shouldQuit, frames, localVars, chainVars, imageState,
                   signaledSemaphores, gpuQueue, obsVars, immediate,
                   stagingDestroys, devVars, mainObs, ownVars,
                   sizeVars, drawVars>>

\* uploadMesh after immediateSubmit returned: destroyBuffer(staging)
UploadMeshEnd ==
    /\ pc = "mesh_destroy"
    /\ staging' = DestroyBuffer(staging)
    /\ stagingDestroys' = IF staging' # staging THEN stagingDestroys + 1
                          ELSE stagingDestroys
    /\ pc' = "init_done"
    /\ UNCHANGED <<exitCode, isInitialized, frameNumber, swapchainStale,
                   shouldQuit, frames, localVars, chainVars, imageState,
                   signaledSemaphores, gpuQueue, obsVars, immediate,
                   immCaller, devVars, mainObs, ownVars,
                   sizeVars, drawVars>>

\* Renderer::init completing: isInitialized = true
RendererInit ==
    /\ pc = "init_done"
    /\ isInitialized' = TRUE
    /\ pc' = "run"
    /\ UNCHANGED <<exitCode, frameNumber, swapchainStale, shouldQuit, frames,
                   localVars, chainVars, imageState, signaledSemaphores,
                   gpuQueue, obsVars, immVars, devVars, mainObs, ownVars,
                   sizeVars, drawVars>>

\* Renderer::init throwing: no window, no surface, a VK_CHECK that fails,
\* a shader file that cannot be opened, a null pipeline
RendererInitFail ==
    /\ pc \in InitThrowPositions
    /\ Throw
    /\ UNCHANGED <<isInitialized, frameNumber, swapchainStale, shouldQuit,
                   frames, localVars, chainVars, imageState,
                   signaledSemaphores, gpuQueue, obsVars, immVars, devVars,
                   mainObs, ownVars,
                   sizeVars, drawVars>>

\* Renderer::run entered: shouldQuit = false
RunEnter ==
    /\ pc = "run"
    /\ shouldQuit' = FALSE
    /\ pc' = "poll"
    /\ UNCHANGED <<exitCode, isInitialized, frameNumber, swapchainStale,
                   frames, localVars, chainVars, imageState,
                   signaledSemaphores, gpuQueue, obsVars, immVars,
                   devVars, mainObs, ownVars,
                   sizeVars, drawVars>>

\* the SDL_PollEvent loop at the top of an iteration
PollEvents ==
    /\ pc = "poll"
    /\ \E quit \in BOOLEAN :
           /\ (frameNumber >= MaxFrames => quit)
           /\ shouldQuit' = (shouldQuit \/ quit)
    /\ loopRebuilds' = 0
    /\ pc' = "check"
    /\ UNCHANGED <<exitCode, isInitialized, frameNumber, swapchainStale,
                   frames, localVars, chainVars, imageState,
                   signaledSemaphores, gpuQueue, submitCount, drawCount,
                   staleCount, rebuildCount, lastDraw, abortedFrame,
                   immVars, devVars, mainObs, ownVars,
                   sizeVars, drawVars>>

\* Renderer::rebuildSwapchain, called by run when the flag is set
RebuildSwapchain ==
    /\ pc = "check"
    /\ StaleCheck
    /\ DeviceWaitIdle
    /\ \E n \in 1 .. MaxImages :
           /\ CreateSwapchain(n, swapchainGen + 1)
           /\ chainLog' = RebuildCalls(swapchainImages, swapchainImageViews,
                                       renderFinishedSemaphores, swapchainGen,
                                       n)
           /\ live' = ApplyCalls(chainLog', live)
    /\ \E size \in WindowSizes :
           /\ windowSize' = size
           /\ swapchainExtent' = RebuildExtent(size, swapchainExtent)
    /\ frames' = RebuildFrameDatas(frames, swapchainGen + 1)
    /\ swapchainStale' = FALSE
    /\ rebuildCount' = rebuildCount + 1
    /\ loopRebuilds' = loopRebuilds + 1
    /\ pc' = "draw"
    /\ UNCHANGED <<exitCode, isInitialized, frameNumber, shouldQuit, localVars,
                   gpuQueue, submitCount, drawCount, staleCount, lastDraw,
                   abortedFrame, immVars, mainObs, ownVars,
                   mainDrawExtent, drawVars>>

\* run when the flag is clear: straight on to draw
SkipRebuild ==
    /\ pc = "check"
    /\ ~StaleCheck
    /\ pc' = "draw"
    /\ UNCHANGED <<exitCode, isInitialized, frameNumber, swapchainStale,
                   shouldQuit, frames, localVars, chainVars, imageState,
                   signaledSemaphores, gpuQueue, obsVars, immVars,
                   devVars, mainObs, ownVars,
                   sizeVars, drawVars>>

\* draw, lines 166-170: bind the slot, wait for its fence, reset the fence
DrawWaitFence ==
    /\ pc = "draw"
    /\ LET slot == GetCurrentFrame(frameNumber) IN
       /\ FenceWaitReturns(slot)
       /\ currentFrame' = slot
       /\ frames' = [frames EXCEPT ![slot].fence = ResetFence(frames[slot].fence)]
    /\ steps' = <<"waitFence", "resetFence">>
    /\ pc' = "acquire"
    /\ UNCHANGED <<exitCode, isInitialized, frameNumber, swapchainStale,
                   shouldQuit, swapchainImageIndex, acquireResult,
                   presentResult, chainVars, imageState, signaledSemaphores,
                   gpuQueue, obsVars, immVars,
                   devVars, mainObs, ownVars,
                   sizeVars, recorded>>

\* draw, lines 168-169: the fence is still unsignaled when the wait's
\* one-second bound expires; VK_CHECK decides on VK_TIMEOUT
DrawWaitFenceTimeout ==
    /\ pc = "draw"
    /\ LET slot == GetCurrentFrame(frameNumber) IN
       /\ ~frames[slot].fence
       /\ IF VkCheckThrows(VK_TIMEOUT)
          THEN /\ Throw
               /\ steps' = <<"waitFence">>
               /\ UNCHANGED <<frames, currentFrame>>
          ELSE /\ currentFrame' = slot
               /\ frames' = [frames EXCEPT
                                ![slot].fence = ResetFence(frames[slot].fence)]
               /\ pc' = "acquire"
               /\ steps' = <<"waitFence", "resetFence">>
               /\ UNCHANGED exitCode
    /\ UNCHANGED <<isInitialized, frameNumber, swapchainStale, shouldQuit,
                   swapchainImageIndex, acquireResult, presentResult,
                   chainVars, imageState, signaledSemaphores, gpuQueue,
                   obsVars, immVars, devVars, mainObs, ownVars,
                   sizeVars, recorded>>

FreeImages == {k \in 1 .. Len(imageState) : imageState[k] = "free"}

\* draw, lines 172-180: vkAcquireNextImageKHR and the staleness test.
\* VK_SUCCESS and VK_SUBOPTIMAL_KHR hand out a free image and signal the
\* slot's semaphore; the other results leave swapchainImageIndex unwritten,
\* so a later read of it yields any index.
DrawAcquire ==
    /\ pc = "acquire"
    /\ steps' = Append(steps, "acquire")
    /\ \E r \in AcquireResults :
           /\ (IsStale(r) => staleCount < MaxStale)
           /\ acquireResult' = r
           /\ IF r \in {VK_SUCCESS, VK_SUBOPTIMAL_KHR}
              THEN \E k \in FreeImages :
                       /\ swapchainImageIndex' = k - 1
                       /\ imageState' = [imageState EXCEPT ![k] = "acquired"]
                       /\ frames' = [frames EXCEPT
                                        ![currentFrame].imageAvailable = TRUE]
              ELSE /\ swapchainImageIndex' \in 0 .. (Len(swapchainImages) - 1)
                   /\ UNCHANGED <<imageState, frames>>
           /\ IF IsStale(r)
              THEN /\ swapchainStale' = TRUE
                   /\ pc' = LoopNext(shouldQuit)
                   /\ drawCount' = drawCount + 1
                   /\ staleCount' = staleCount + 1
                   /\ lastDraw' = "staleAcquire"
                   /\ abortedFrame' = frameNumber
              ELSE /\ pc' = AfterAcquire
                   /\ UNCHANGED <<swapchainStale, drawCount, staleCount,
                                  lastDraw, abortedFrame>>
    /\ UNCHANGED <<exitCode, isInitialized, frameNumber, shouldQuit,
                   currentFrame, presentResult, chainVars, signaledSemaphores,
                   gpuQueue, submitCount, rebuildCount, loopRebuilds,
                   immVars, devVars, mainObs, ownVars,
                   sizeVars, recorded>>

\* draw, lines 187-301: reset the slot's command buffer, record, end
DrawRecord ==
    /\ pc = "record"
    /\ frames' = [frames EXCEPT
                     ![GetCurrentFrame(frameNumber)].cmd = "executable"]
    /\ recorded' = RecordCommands(swapchainImages[swapchainImageIndex + 1])
    /\ steps' = steps \o <<"resetCommandBuffer", "record",
                         "endCommandBuffer">>
    /\ pc' = "submit"
    /\ UNCHANGED <<exitCode, isInitialized, frameNumber, swapchainStale,
                   shouldQuit, localVars, chainVars, imageState,
                   signaledSemaphores, gpuQueue, obsVars, immVars,
                   devVars, mainObs, ownVars, sizeVars>>

\* draw, lines 303-317: vkQueueSubmit waiting on the slot's semaphore,
\* signaling renderFinishedSemaphores[index] and the slot's fence
DrawSubmit ==
    /\ pc = "submit"
    /\ gpuQueue' = Append(gpuQueue,
           [kind |-> "submit", slot |-> currentFrame,
            image |-> swapchainImageIndex, frame |-> frameNumber,
            sem |-> SignalSemaphore(swapchainImageIndex)])
    /\ frames' = [frames EXCEPT ![GetCurrentFrame(frameNumber)].cmd = "pending"]
    /\ submitCount' = submitCount + 1
    /\ steps' = Append(steps, "submit")
    /\ pc' = "present"
    /\ UNCHANGED <<exitCode, isInitialized, frameNumber, swapchainStale,
                   shouldQuit, localVars, chainVars, imageState,
                   signaledSemaphores, drawCount, staleCount, rebuildCount,
                   loopRebuilds, lastDraw, abortedFrame, immVars, devVars,
                   mainObs, ownVars,
                   sizeVars, recorded>>

\* draw, lines 316-317: vkQueueSubmit fails; VK_CHECK throws
DrawSubmitFail ==
    /\ pc = "submit"
    /\ VkCheckThrows(VK_ERROR_DEVICE_LOST)
    /\ Throw
    /\ UNCHANGED <<isInitialized, frameNumber, swapchainStale, shouldQuit,
                   frames, localVars, chainVars, imageState,
                   signaledSemaphores, gpuQueue, obsVars, immVars,
                   devVars, mainObs, ownVars,
                   sizeVars, drawVars>>

\* draw, lines 319-335: vkQueuePresentKHR, the staleness test, frameNumber++
DrawPresent ==
    /\ pc = "present"
    /\ \E r \in PresentResults :
           /\ (IsStale(r) => staleCount < MaxStale)
           /\ presentResult' = r
           /\ swapchainStale' = (swapchainStale \/ IsStale(r))
           /\ staleCount' = IF r \in {VK_SUBOPTIMAL_KHR, VK_ERROR_OUT_OF_DATE_KHR}
                            THEN staleCount + 1 ELSE staleCount
    /\ gpuQueue' = Append(gpuQueue,
           [kind |-> "present", slot |-> currentFrame,
            image |-> swapchainImageIndex, frame |-> frameNumber,
            sem |-> PresentWaitSemaphore(swapchainImageIndex)])
    /\ imageState' = [imageState EXCEPT ![swapchainImageIndex + 1] = "queued"]
    /\ frameNumber' = AdvanceFrame(frameNumber)
    /\ steps' = steps \o <<"present">>
                 \o (IF frameNumber' # frameNumber THEN <<"increment">>
                     ELSE <<>>)
    /\ drawCount' = drawCount + 1
    /\ lastDraw' = "presented"
    /\ pc' = LoopNext(shouldQuit)
    /\ UNCHANGED <<exitCode, isInitialized, shouldQuit, frames, currentFrame,
                   swapchainImageIndex, acquireResult, chainVars,
                   signaledSemaphores, submitCount, rebuildCount, loopRebuilds,
                   abortedFrame, immVars, devVars, mainObs, ownVars,
                   sizeVars, recorded>>

\* the queue executes its oldest operation.  A submission starts once the
\* semaphore it waits on is signaled; on completion it unsignals that
\* semaphore, signals its render-finished semaphore and its fence, and the
\* one-time-submit command buffer becomes invalid.  A present waits on the
\* render-finished semaphore and hands the image back to the chain.
GpuExecute ==
    /\ gpuQueue # <<>>
    /\ LET op == Head(gpuQueue) IN
       CASE op.kind = "submit" ->
            /\ frames[op.slot].imageAvailable
            /\ frames' = [frames EXCEPT ![op.slot].imageAvailable = FALSE,
                                        ![op.slot].fence = TRUE,
                                        ![op.slot].cmd = "invalid"]
            /\ signaledSemaphores' = signaledSemaphores \cup {op.sem}
            /\ UNCHANGED <<imageState, immediate>>
         [] op.kind = "present" ->
            /\ op.sem \in signaledSemaphores
            /\ signaledSemaphores' = signaledSemaphores \ {op.sem}
            /\ imageState' = [imageState EXCEPT ![op.image + 1] = "free"]
            /\ UNCHANGED <<frames, immediate>>
         [] op.kind = "immediate" ->
            /\ immediate' = [immediate EXCEPT !.fence = TRUE,
                                              !.cmd = "invalid"]
            /\ UNCHANGED <<frames, imageState, signaledSemaphores>>
    /\ gpuQueue' = Tail(gpuQueue)
    /\ UNCHANGED <<pc, exitCode, isInitialized, frameNumber, swapchainStale,
                   shouldQuit, localVars, chainVars, obsVars, immCaller,
                   staging, stagingDestroys, devVars, mainObs, ownVars,
                   sizeVars, drawVars>>

\* main: run returned; Renderer::cleanup waits for the device and destroys
\* what init created, the chain by destroySwapchain; main returns success
RendererCleanup ==
    /\ pc = "cleanup"
    /\ isInitialized
    /\ DeviceWaitIdle
    /\ cleanupCalls' = cleanupCalls + 1
    /\ cleanupLog' = CleanupCalls
    /\ owned' = owned \ {CleanupCalls[k] : k \in 1 .. Len(CleanupCalls)}
    /\ chainLog' = DestroySwapchainCalls(swapchainImages, swapchainImageViews,
                                         renderFinishedSemaphores,
                                         swapchainGen)
    /\ live' = ApplyCalls(chainLog', live)
    /\ pc' = "done"
    /\ exitCode' = "EXIT_SUCCESS"
    /\ UNCHANGED <<isInitialized, frameNumber, swapchainStale, shouldQuit,
                   frames, localVars, chainVars, imageState,
                   signaledSemaphores, gpuQueue, obsVars, immVars,
                   uncheckedFailures, apiCalls, sizeVars, drawVars>>

Next ==
    \/ InitPlatform
    \/ InitSwapchain
    \/ InitImmediateCommands
    \/ CreateDrawImages
    \/ ImmediateSubmit
    \/ ImmediateWait
    \/ ImmediateWaitTimeout
    \/ InitFrames
    \/ BuildPipelines
    \/ UploadMeshBegin
    \/ UploadMeshEnd
    \/ RendererInit
    \/ RendererInitFail
    \/ RunEnter
    \/ PollEvents
    \/ RebuildSwapchain
    \/ SkipRebuild
    \/ DrawWaitFence
    \/ DrawWaitFenceTimeout
    \/ DrawAcquire
    \/ DrawRecord
    \/ DrawSubmit
    \/ DrawSubmitFail
    \/ DrawPresent
    \/ GpuExecute
    \/ RendererCleanup

Spec == Init /\ [][Next]_vars

\* ------------------------------------- the transition helper on its own
\* images the helper is called for: a draw image and a chain image
TransitionImages == {MainDrawImage, Handle(1, 1)}

\* everything but the command buffer the helper records into
helperFrame == <<pc, exitCode, isInitialized, frameNumber, swapchainStale,
                 shouldQuit, frames, localVars, chainVars, imageState,
                 signaledSemaphores, gpuQueue, obsVars, immVars, devVars,
                 mainObs, ownVars, sizeVars, steps>>

\* one call transitionImageLayout(cmd, image, oldLayout, newLayout)
TransitionCall ==
    /\ Len(recorded) < MaxBarriers
    /\ \E image \in TransitionImages, oldLayout \in Layouts,
          newLayout \in Layouts :
           recorded' = recorded
                       \o TransitionImageLayout(image, oldLayout, newLayout)
    /\ UNCHANGED helperFrame

TransitionNext == TransitionCall

SpecTransition == Init /\ [][TransitionNext]_vars

\* everything a public call that returns at its first test leaves alone
rendererState == <<exitCode, isInitialized, frameNumber, swapchainStale,
                   shouldQuit, frames, localVars, chainVars, imageState,
                   signaledSemaphores, gpuQueue, obsVars, immVars, devVars,
                   mainObs, ownVars, sizeVars, drawVars>>

\* a caller other than main: after init or cleanup returned, or after it
\* caught what init threw, it calls init or cleanup again
CallPublic ==
    /\ pc \in {"run", "done", "fatal"}
    /\ apiCalls < MaxCalls
    /\ apiCalls' = apiCalls + 1
    /\ \E op \in {"init", "cleanup"} : pc' = op
    /\ UNCHANGED <<exitCode, isInitialized, frameNumber, swapchainStale,
                   shouldQuit, frames, localVars, chainVars, imageState,
                   signaledSemaphores, gpuQueue, obsVars, immVars, devVars,
                   uncheckedFailures, cleanupCalls, ownVars, sizeVars,
                   drawVars>>

\* Renderer::init, lines 38-40: `if (isInitialized) return;`
InitReturnsEarly ==
    /\ pc = "init"
    /\ isInitialized
    /\ pc' = "run"
    /\ UNCHANGED rendererState

\* Renderer::cleanup, lines 131-133: `if (!isInitialized) return;`
CleanupReturnsEarly ==
    /\ pc = "cleanup"
    /\ ~isInitialized
    /\ pc' = "done"
    /\ UNCHANGED rendererState

LifecycleNext ==
    \/ InitPlatform
    \/ InitSwapchain
    \/ InitImmediateCommands
    \/ CreateDrawImages
    \/ ImmediateSubmit
    \/ ImmediateWait
    \/ ImmediateWaitTimeout
    \/ InitFrames
    \/ BuildPipelines
    \/ UploadMeshBegin
    \/ UploadMeshEnd
    \/ RendererInit
    \/ RendererInitFail
    \/ GpuExecute
    \/ RendererCleanup
    \/ CallPublic
    \/ InitReturnsEarly
    \/ CleanupReturnsEarly

\* init and cleanup called in any order, without run
SpecLifecycle == Init /\ [][LifecycleNext]_vars

\* ------------------------------------------------------------- claims

\* positions of the control thread inside Renderer::draw
DrawPositions == {"draw", "acquire", "record", "submit", "present"}
\* positions a draw call returns to
IdlePositions == {"poll", "cleanup"}

StaleCodes == {VK_SUBOPTIMAL_KHR, VK_ERROR_OUT_OF_DATE_KHR}

\* the step of draw that resets and records the command buffer
RecordStep == pc = "record" /\ pc' = "submit"
\* the step of draw in which acquisition reported staleness
AcquireStaleStep ==
    pc = "acquire" /\ pc' # "acquire" /\ acquireResult' \in StaleCodes
\* the step of draw in which presentation reported staleness
PresentStaleStep ==
    pc = "present" /\ pc' # "present" /\ presentResult' \in StaleCodes
\* a step that replaces the chain built by init
RebuildStep == swapchainGen # 0 /\ swapchainGen' # swapchainGen

\* C1: a slot's command buffer is reset and re-recorded only by the draw
\* whose opening wait was on that slot's fence, and never while a submission
\* that references it is still queued or executing.
C1_ResetAfterFence ==
    [][RecordStep =>
          LET slot == GetCurrentFrame(frameNumber) IN
          /\ currentFrame = slot
          /\ frames[slot].cmd # "pending"
          /\ \A k \in SubmitOps : gpuQueue[k].slot # slot]_vars

\* a draw is about to re-record a slot whose earlier submission has run
C1_Witness ==
    /\ pc = "record"
    /\ frameNumber >= FRAMES_IN_FLIGHT
    /\ frames[GetCurrentFrame(frameNumber)].cmd = "invalid"

\* C2: at most FRAMES_IN_FLIGHT submissions are queued and incomplete, and
\* while frame K is being recorded or submitted no submission of frame K-2
\* or older is still incomplete (frame K-1 may be).
C2_BoundedInFlight ==
    /\ Cardinality(SubmitOps) <= FRAMES_IN_FLIGHT
    /\ pc \in {"record", "submit"} =>
           \A k \in SubmitOps :
               gpuQueue[k].frame > frameNumber - FRAMES_IN_FLIGHT

\* frame K+1 is being recorded while frame K's submission is incomplete
C2_Witness ==
    /\ pc = "record"
    /\ \E k \in SubmitOps : gpuQueue[k].frame = frameNumber - 1

\* C3: frameNumber equals the number of frame submissions queued (less the
\* one of the frame still inside draw), it never decreases, and every frame
\* uses the slot frameNumber mod FRAMES_IN_FLIGHT read at its start.
C3_FrameNumberCountsSubmissions ==
    /\ [](/\ frameNumber = IF pc = "present" THEN submitCount - 1
                           ELSE submitCount
          /\ pc \in (DrawPositions \ {"draw"}) =>
                 currentFrame = frameNumber % FRAMES_IN_FLIGHT
          /\ \A k \in SubmitOps :
                 gpuQueue[k].slot = gpuQueue[k].frame % FRAMES_IN_FLIGHT)
    /\ [][frameNumber' >= frameNumber]_vars

\* every frame was submitted although some draw calls were aborted
C3_Witness ==
    /\ frameNumber = MaxFrames
    /\ submitCount = MaxFrames
    /\ drawCount > MaxFrames

\* C4: a suboptimal or out-of-date acquisition sets the stale flag and
\* returns: command buffer untouched, nothing submitted or presented,
\* frameNumber unchanged.
C4_StaleAcquireAborts ==
    [][AcquireStaleStep =>
          /\ swapchainStale'
          /\ pc' \in IdlePositions
          /\ frames'[currentFrame].cmd = frames[currentFrame].cmd
          /\ gpuQueue' = gpuQueue
          /\ submitCount' = submitCount
          /\ frameNumber' = frameNumber]_vars

\* a draw returned after a suboptimal acquisition of a later frame
C4_Witness ==
    /\ lastDraw = "staleAcquire"
    /\ acquireResult = VK_SUBOPTIMAL_KHR
    /\ frameNumber > 0
    /\ pc = "poll"

C6_StalePresentKeepsFrameNumber ==
    [][PresentStaleStep => frameNumber' = frameNumber]_vars

\* C6 as amended: both side exits return to Idle; the one from Present has
\* advanced frameNumber by one, the one from AcquireImage has not.
C6_StalePresentAdvances ==
    [][/\ PresentStaleStep =>
              pc' \in IdlePositions /\ frameNumber' = frameNumber + 1
       /\ AcquireStaleStep =>
              pc' \in IdlePositions /\ frameNumber' = frameNumber]_vars

\* a draw returned to the loop after a suboptimal presentation
C6_Witness ==
    /\ lastDraw = "presented"
    /\ presentResult = VK_SUBOPTIMAL_KHR
    /\ swapchainStale
    /\ pc = "poll"
    /\ frameNumber > 0

\* C7: the chain is replaced only by the run loop between two draws, with
\* the flag set, after the device-idle wait returned, at most once per loop
\* iteration, and the rebuild clears the flag.
C7_RebuildOnlyBetweenFrames ==
    /\ [][RebuildStep =>
             /\ pc = "check"
             /\ pc' = "draw"
             /\ swapchainStale
             /\ ~swapchainStale'
             /\ gpuQueue = <<>>
             /\ loopRebuilds' = 1]_vars
    /\ [](loopRebuilds <= 1)

\* rebuilt once in this iteration, after a frame that was presented stale
C7_Witness ==
    /\ pc = "draw"
    /\ loopRebuilds = 1
    /\ lastDraw = "presented"
    /\ swapchainGen > 1
    /\ frameNumber >= FRAMES_IN_FLIGHT

\* C8: after a stale acquisition of frame k nothing of frame k is queued and
\* the flag is set; the next iteration rebuilds exactly once, and the draw
\* that follows is still for frame k and its slot, finds that slot's fence
\* signaled and goes on to acquire.
C8_RetryAfterStaleAcquire ==
    /\ [](lastDraw = "staleAcquire" =>
             /\ frameNumber = abortedFrame
             /\ pc \in {"poll", "check", "cleanup"} =>
                    /\ swapchainStale
                    /\ \A k \in SubmitOps : gpuQueue[k].frame # abortedFrame
             /\ pc \in DrawPositions => loopRebuilds = 1
             /\ pc = "draw" =>
                    /\ ~swapchainStale
                    /\ gpuQueue = <<>>
                    /\ frames[GetCurrentFrame(abortedFrame)].fence)
    /\ [][lastDraw = "staleAcquire" /\ pc = "draw" /\ pc' # "draw" =>
             pc' = "acquire" /\ currentFrame' = GetCurrentFrame(abortedFrame)]_vars

\* frame 1 was aborted by an out-of-date acquisition after its slot's fence
\* was reset, the chain rebuilt once, and frame 1 then acquired, submitted
\* and presented with success
C8_Witness ==
    /\ abortedFrame = 1
    /\ frameNumber = abortedFrame + 1
    /\ lastDraw = "presented"
    /\ acquireResult = VK_SUCCESS
    /\ presentResult = VK_SUCCESS
    /\ rebuildCount = 1
    /\ staleCount = 1

\* C9: rebuilds never outnumber the frames that reported staleness; with no
\* staleness reported the chain is the one init built and frameNumber is
\* the number of draw calls that returned.
C9_NoStalenessNoRebuild ==
    /\ rebuildCount <= staleCount
    /\ staleCount = 0 =>
           /\ rebuildCount = 0
           /\ swapchainGen <= 1
           /\ pc \notin (DrawPositions \ {"draw"}) => frameNumber = drawCount

\* MaxFrames frames ran with no staleness and the loop ended
C9_Witness ==
    /\ pc = "done"
    /\ staleCount = 0
    /\ frameNumber = MaxFrames
    /\ swapchainGen = 1

\* C10: after every build and rebuild the chain has as many views and as
\* many render-finished signals as images
C10_EqualLengths ==
    isInitialized =>
        /\ Len(swapchainImages) = Len(swapchainImageViews)
        /\ Len(swapchainImageViews) = Len(renderFinishedSemaphores)

\* positions in the log of the latest build at which the device was asked
\* to create / to destroy a chain object
CreateCalls == {k \in 1 .. Len(chainLog) : chainLog[k].op = "create"}
DestroyCalls == {k \in 1 .. Len(chainLog) : chainLog[k].op = "destroy"}
\* the frame operations (submissions and presentations) in the queue
FrameOps == {k \in 1 .. Len(gpuQueue) : gpuQueue[k].kind # "immediate"}

\* C11: a rebuild destroys every view, every render-finished signal and the
\* chain handle of the old chain, each once, before it creates any object of
\* the new chain; afterwards only objects of the new chain are alive, and
\* every stored handle and every handle a queued frame operation uses
\* belongs to the new chain.
C11_OldChainGoneAfterRebuild ==
    (rebuildCount > 0 /\ cleanupCalls = 0) =>
        /\ \A d \in DestroyCalls : \A c \in CreateCalls : d < c
        /\ \A d \in DestroyCalls : chainLog[d].h[1] = swapchainGen - 1
        /\ \A d, e \in DestroyCalls :
               (chainLog[d] = chainLog[e]) => (d = e)
        /\ live = {<<chainLog[c].kind, chainLog[c].h>> : c \in CreateCalls}
        /\ \A o \in live : o[2][1] = swapchainGen
        /\ \A k \in 1 .. Len(swapchainImages) :
               swapchainImages[k][1] = swapchainGen
        /\ \A k \in 1 .. Len(swapchainImageViews) :
               <<"view", swapchainImageViews[k]>> \in live
        /\ \A k \in 1 .. Len(renderFinishedSemaphores) :
               <<"semaphore", renderFinishedSemaphores[k]>> \in live
        /\ \A k \in FrameOps : <<"semaphore", gpuQueue[k].sem>> \in live
        /\ \A h \in signaledSemaphores : <<"semaphore", h>> \in live

\* a chain of two images was rebuilt into a chain of one image (two views,
\* two signals and the chain destroyed), and a later frame is queued with
\* the new chain's signal
C11_Witness ==
    /\ rebuildCount = 1
    /\ Cardinality(DestroyCalls) = 5
    /\ Len(swapchainImages) = 1
    /\ \E k \in FrameOps :
           gpuQueue[k].kind = "submit" /\ gpuQueue[k].sem = Handle(2, 1)

\* results the code tests for explicitly
HandledResults == {VK_SUCCESS} \cup StaleCodes
\* the step of draw in which acquisition / presentation returned
AcquireStep == pc = "acquire" /\ pc' # "acquire"
PresentStep == pc = "present" /\ pc' # "present"

\* C12: an acquisition or presentation result other than success,
\* suboptimal and out-of-date is fatal: after such an acquisition nothing is
\* recorded or submitted, after such a presentation frameNumber is not
\* advanced, and in both cases the run loop stops.
C12_OtherResultsFatal ==
    [][/\ (AcquireStep /\ acquireResult' \notin HandledResults) =>
              pc' = "fatal"
       /\ (PresentStep /\ presentResult' \notin HandledResults) =>
              (pc' = "fatal" /\ frameNumber' = frameNumber)]_vars

\* the step of draw whose wait on the slot's fence ran into its bound
FenceTimeoutStep ==
    /\ pc = "draw"
    /\ pc' # "draw"
    /\ ~frames[GetCurrentFrame(frameNumber)].fence

\* C13: a fence wait that exceeds its bound ends draw in a fatal error: the
\* fence is not reset, no image is acquired, nothing is recorded or
\* submitted, frameNumber is unchanged; and after a fatal error the loop
\* starts no further frame.
C13_FenceTimeoutFatal ==
    [][/\ FenceTimeoutStep =>
              /\ pc' = "fatal"
              /\ UNCHANGED <<frames, imageState, swapchainImageIndex,
                             acquireResult, gpuQueue, submitCount,
                             frameNumber>>
       /\ pc = "fatal" =>
              /\ pc' = "fatal"
              /\ UNCHANGED <<frameNumber, submitCount, drawCount>>
              /\ Len(gpuQueue') <= Len(gpuQueue)]_vars

\* frame 2 waited on slot 0 while the submission of frame 0 was still
\* pending, the wait timed out and the program is in the fatal position
C13_Witness ==
    /\ pc = "fatal"
    /\ frameNumber = FRAMES_IN_FLIGHT
    /\ ~frames[GetCurrentFrame(frameNumber)].fence
    /\ frames[GetCurrentFrame(frameNumber)].cmd = "pending"
    /\ submitCount = FRAMES_IN_FLIGHT

\* C14: when the process exits with failure after a fatal error in init or
\* in the run loop, the top level has attempted the device-idle wait and
\* teardown (a call of cleanup) before.
C14_TeardownBeforeFailureExit ==
    (pc = "fatal" /\ exitCode = "EXIT_FAILURE") => cleanupCalls > 0

\* C15: the exit code is success exactly when init, the run loop and cleanup
\* completed, it is failure exactly when one of them raised a fatal error,
\* and a step that reports staleness returns to the loop without touching
\* the exit code.
C15_ExitCode ==
    /\ [](/\ (exitCode = "EXIT_SUCCESS") <=> (pc = "done")
          /\ (exitCode = "EXIT_FAILURE") <=> (pc = "fatal")
          /\ (pc = "done") => (isInitialized /\ cleanupCalls = 1))
    /\ [][(AcquireStaleStep \/ PresentStaleStep) =>
              (pc' \in IdlePositions /\ exitCode' = exitCode)]_vars

\* a run in which acquisition and presentation reported staleness as often
\* as the surface allows ended with the success exit
C15_Witness ==
    /\ pc = "done"
    /\ exitCode = "EXIT_SUCCESS"
    /\ staleCount = MaxStale
    /\ rebuildCount > 0

\* C16: after a failure of an initialization step init does not complete:
\* the renderer is not marked initialized, the run loop is not entered and
\* no frame is drawn.
C16_InitFailureFatal ==
    (uncheckedFailures # {}) =>
        /\ ~isInitialized
        /\ pc \in InitPositions \cup {"fatal"}
        /\ drawCount = 0
        /\ submitCount = 0

\* the step in which immediateSubmit returns to its caller
ImmediateReturnStep == pc = "imm_wait" /\ pc' \notin {"imm_wait", "fatal"}

\* C17: immediateSubmit works on a command buffer and a fence of its own: no
\* step changes them together with a slot's fence or command buffer.  It
\* returns only when its fence is signaled and its work has completed, so
\* an immediate submission is queued only while immediateSubmit waits.
C17_ImmediateSubmitSynchronous ==
    /\ [](ImmediateOps # {} => pc \in {"imm_wait", "fatal"})
    /\ [][/\ (immediate' # immediate) => (frames' = frames)
          /\ ImmediateReturnStep =>
                 /\ immediate.fence
                 /\ immediate.cmd = "invalid"
                 /\ ImmediateOps = {}
                 /\ UNCHANGED <<immediate, gpuQueue>>]_vars

\* the second immediate submission (the mesh upload's copy) has completed
\* and immediateSubmit has returned to uploadMesh
C17_Witness ==
    /\ pc = "mesh_destroy"
    /\ immediate.fence
    /\ immediate.cmd = "invalid"
    /\ gpuQueue = <<>>

\* positions inside immediateSubmit
ImmediatePositions == {"imm_submit", "imm_wait"}

\* C18: immediateSubmit runs only inside init, before the renderer is
\* initialized and before any frame was submitted, never inside draw; the
\* queue never holds an immediate submission together with a frame
\* operation.
C18_ImmediateOnlyDuringInit ==
    /\ [](/\ (pc \in ImmediatePositions) =>
                 (~isInitialized /\ submitCount = 0 /\ drawCount = 0)
          /\ (ImmediateOps # {}) =>
                 (FrameOps = {} /\ submitCount = 0 /\ ~isInitialized))
    /\ [][(ImmediateOps' # ImmediateOps /\ Len(gpuQueue') > Len(gpuQueue)) =>
              (pc = "imm_submit" /\ pc \notin DrawPositions)]_vars

\* both immediate submissions of init have completed and the first frame's
\* submission is in the queue
C18_Witness ==
    /\ immediate.cmd = "invalid"
    /\ staging = "destroyed"
    /\ submitCount = 1
    /\ ImmediateOps = {}
    /\ \E k \in FrameOps : gpuQueue[k].kind = "submit"

\* the step of uploadMesh that destroys the staging buffer
StagingDestroyStep == staging # "destroyed" /\ staging' = "destroyed"
\* uploadMesh has returned to init
UploadReturned == pc = "init_done" \/ isInitialized

\* C19: the staging buffer of a mesh upload is destroyed once, after the
\* wait on the immediate fence returned; it is alive while the copy is
\* queued or executing and destroyed when the upload has returned.
C19_StagingDestroyedOnceAfterWait ==
    /\ [](/\ stagingDestroys <= 1
          /\ (ImmediateOps # {} /\ immCaller = "mesh") => (staging = "live")
          /\ UploadReturned => (staging = "destroyed" /\ stagingDestroys = 1))
    /\ [][StagingDestroyStep =>
              /\ staging = "live"
              /\ pc = "mesh_destroy"
              /\ immediate.fence
              /\ immediate.cmd = "invalid"
              /\ ImmediateOps = {}
              /\ stagingDestroys' = 1]_vars

\* the upload has returned to init after its copy completed and its staging
\* buffer was destroyed
C19_Witness ==
    /\ pc = "init_done"
    /\ staging = "destroyed"
    /\ stagingDestroys = 1
    /\ immediate.fence

\* a step that creates or recreates the slots
SlotsCreatedStep == \E s \in Slots : frames'[s].gen # frames[s].gen
\* the slot the next draw uses has not been used since it was created
SlotUnused(slot) == frames[slot].cmd = "initial"

\* C20: whenever the slots are created, at init and at every rebuild, every
\* slot's fence is signaled; so a draw that opens on a slot not used since
\* its creation finds the fence signaled and its wait returns at once.
C20_FencesCreatedSignaled ==
    /\ [][SlotsCreatedStep =>
              \A s \in Slots : frames'[s].fence /\ frames'[s].cmd = "initial"]_vars
    /\ []((pc = "draw" /\ SlotUnused(GetCurrentFrame(frameNumber))) =>
              frames[GetCurrentFrame(frameNumber)].fence)

\* after a rebuild recreated the slots, the first wait on a slot returned
\* with nothing queued or executing on the device
C20_Witness ==
    /\ pc = "acquire"
    /\ rebuildCount = 1
    /\ frames[currentFrame].gen = swapchainGen
    /\ SlotUnused(currentFrame)
    /\ submitCount > 0
    /\ gpuQueue = <<>>

\* C21: between init and cleanup there are exactly FRAMES_IN_FLIGHT slots,
\* and each created slot has one command buffer allocated for it, the one
\* it stores, next to its one semaphore and its one fence.
C21_OneContextPerSlot ==
    /\ DOMAIN frames = Slots
    /\ Cardinality(Slots) = FRAMES_IN_FLIGHT
    /\ \A s \in Slots : (frames[s].gen > 0) => (frames[s].cmdBuffers = 1)

\* the step of draw that queues the submission
SubmitStep == pc = "submit" /\ pc' = "present"
\* the operation a step has put at the end of the queue
Queued == gpuQueue'[Len(gpuQueue')]
\* the queue executes its oldest operation
ExecuteStep == gpuQueue # <<>> /\ gpuQueue' = Tail(gpuQueue)

\* C22: for a frame with image index i the submission is queued for the
\* current slot (whose image-acquired signal it waits on and whose fence it
\* signals) and signals the render-finished signal of index i; the present
\* request of the same frame is for index i and waits on that same signal.
\* On the device a submission starts only with its slot's image-acquired
\* signal set and ends with the render-finished signal and the fence set; a
\* present starts only with its render-finished signal set.
C22_SubmitPresentSignals ==
    [][/\ SubmitStep =>
              /\ gpuQueue' = Append(gpuQueue, Queued)
              /\ Queued.kind = "submit"
              /\ Queued.frame = frameNumber
              /\ Queued.slot = GetCurrentFrame(frameNumber)
              /\ Queued.image = swapchainImageIndex
              /\ Queued.sem = renderFinishedSemaphores[swapchainImageIndex + 1]
       /\ PresentStep =>
              /\ gpuQueue' = Append(gpuQueue, Queued)
              /\ Queued.kind = "present"
              /\ Queued.frame = frameNumber
              /\ Queued.image = swapchainImageIndex
              /\ Queued.sem = renderFinishedSemaphores[swapchainImageIndex + 1]
              /\ Queued.sem = Handle(swapchainGen, swapchainImageIndex + 1)
       /\ (ExecuteStep /\ Head(gpuQueue).kind = "submit") =>
              /\ frames[Head(gpuQueue).slot].imageAvailable
              /\ frames'[Head(gpuQueue).slot].fence
              /\ Head(gpuQueue).sem \in signaledSemaphores'
       /\ (ExecuteStep /\ Head(gpuQueue).kind = "present") =>
              Head(gpuQueue).sem \in signaledSemaphores]_vars

\* frame 1 (slot 1) acquired image index 0: its submission and its present
\* request are queued with the render-finished signal of index 0
C22_Witness ==
    /\ Len(gpuQueue) >= 2
    /\ LET sub == gpuQueue[Len(gpuQueue) - 1]
           prs == gpuQueue[Len(gpuQueue)]
       IN /\ sub.kind = "submit" /\ prs.kind = "present"
          /\ sub.frame = 1 /\ prs.frame = 1
          /\ sub.slot = 1
          /\ sub.image = 0 /\ prs.image = 0
          /\ sub.sem = Handle(swapchainGen, 1)
          /\ prs.sem = sub.sem
    /\ acquireResult = VK_SUCCESS

\* position of a call in the log of cleanup (0: not called)
CleanupPos(name) ==
    IF \E k \in 1 .. Len(cleanupLog) : cleanupLog[k] = name
    THEN CHOOSE k \in 1 .. Len(cleanupLog) : cleanupLog[k] = name
    ELSE 0
\* objects created from the logical device or through the allocator
DeviceChildren ==
    {"swapchain", "frames"} \cup ImmediateObjects \cup PipelineObjects
    \cup DrawImageObjects(TRUE)

\* C23: cleanup waits for the device to be idle before its first destroy
\* call; every slot, chain object, render target and immediate-submission
\* object is destroyed, once, before the allocator, the allocator before
\* the logical device, and nothing the device created is left afterwards.
C23_CleanupOrder ==
    (cleanupCalls > 0) =>
        /\ cleanupLog # <<>>
        /\ cleanupLog[1] = "vkDeviceWaitIdle"
        /\ gpuQueue = <<>>
        /\ \A j, k \in 1 .. Len(cleanupLog) :
               (cleanupLog[j] = cleanupLog[k]) => (j = k)
        /\ \A name \in DeviceChildren :
               /\ CleanupPos(name) > 1
               /\ CleanupPos(name) < CleanupPos("allocator")
        /\ CleanupPos("allocator") < CleanupPos("device")
        /\ \A name \in {"surface", "instance"} :
               CleanupPos("device") < CleanupPos(name)
        /\ owned = {}
        /\ live = {}

\* cleanup ran after frames were drawn and the chain was rebuilt
C23_Witness ==
    /\ pc = "done"
    /\ cleanupCalls = 1
    /\ rebuildCount > 0
    /\ submitCount > 0
    /\ Len(cleanupLog) = Len(CleanupCalls)

\* C24: after a rebuild the main draw image, created with the window's
\* size, has the extent the chain was rebuilt for.
C24_DrawImageFollowsRebuild ==
    (rebuildCount > 0) => (mainDrawExtent = swapchainExtent)

DestroySwapchainStep == chainLog' # chainLog /\ DestroyCalls' # {}
\* the objects the destroy calls of a log name
Destroyed(log) ==
    {<<log[d].kind, log[d].h>> :
         d \in {k \in 1 .. Len(log) : log[k].op = "destroy"}}

\* C26: destroySwapchain releases every view and every render-finished
\* signal of the chain and the chain handle, each once, and the chain handle
\* after all of them.
C26_DestroySwapchainOnce ==
    [][DestroySwapchainStep =>
          /\ Destroyed(chainLog') = live
          /\ Cardinality(DestroyCalls') = Cardinality(live)
          /\ \A k \in 1 .. Len(swapchainImageViews) :
                 <<"view", swapchainImageViews[k]>> \in Destroyed(chainLog')
          /\ \A k \in 1 .. Len(renderFinishedSemaphores) :
                 <<"semaphore", renderFinishedSemaphores[k]>>
                     \in Destroyed(chainLog')
          /\ \A d \in DestroyCalls' :
                 (chainLog'[d].kind = "swapchain") =>
                     (\A e \in DestroyCalls' : e <= d)]_vars

\* cleanup destroyed a chain of two images: two views, two signals (the
\* list held four entries), then the chain handle
C26_Witness ==
    /\ pc = "done"
    /\ Len(renderFinishedSemaphores) = 4
    /\ Len(chainLog) = 5
    /\ chainLog[5].kind = "swapchain"
    /\ live = {}

\* the steps of a frame that is not aborted, in the order of draw's code
FrameSteps ==
    <<"waitFence", "resetFence", "acquire", "resetCommandBuffer", "record",
      "endCommandBuffer", "submit", "present", "increment">>
IsPrefix(a, b) == Len(a) <= Len(b) /\ \A k \in 1 .. Len(a) : a[k] = b[k]

\* C27: the steps a draw call has taken are at every moment a prefix of
\* wait, reset fence, acquire, reset, record, end, submit, present,
\* increment; a call that reaches presentation has taken each of them once
\* and has advanced frameNumber by one.
C27_FrameStepOrder ==
    /\ [](IsPrefix(steps, FrameSteps))
    /\ [][PresentStep =>
              /\ steps' = FrameSteps
              /\ frameNumber' = frameNumber + 1
              /\ recorded # <<>>
              /\ Queued.kind = "present"]_vars
    /\ [][AcquireStaleStep => steps' = SubSeq(FrameSteps, 1, 3)]_vars

\* the first frame went through all steps and draw has returned
C27_Witness ==
    /\ pc = "poll"
    /\ lastDraw = "presented"
    /\ steps = FrameSteps
    /\ frameNumber = 1
    /\ submitCount = 1

\* the layouts a presentable image can be written in
WritableLayouts == {"TRANSFER_DST_OPTIMAL", "COLOR_ATTACHMENT_OPTIMAL"}
\* the positions of the recorded commands that touch an image
Touching(cmds, image) ==
    {k \in 1 .. Len(cmds) : cmds[k].image = image}
\* the layout an image is in once the first n recorded commands have
\* executed, each barrier moving it from its oldLayout to its newLayout;
\* "INVALID" when a barrier names an oldLayout the image is not in
RECURSIVE LayoutAfter(_, _, _, _)
LayoutAfter(cmds, image, start, n) ==
    IF n = 0 THEN start
    ELSE LET before == LayoutAfter(cmds, image, start, n - 1)
             c == cmds[n]
         IN IF c.image # image THEN before
            ELSE IF c.oldLayout \in {before, "UNDEFINED"}
                 THEN c.newLayout
                 ELSE "INVALID"

\* C28: the commands a frame records move the acquired image from undefined
\* to a writable layout, then blit the main draw image onto it, then move it
\* to the presentable layout with the last command of the recording; the
\* image handed to presentation ends the recording in the presentable layout
\* whatever layout it was in before.
C28_PresentableLayout ==
    /\ [][RecordStep =>
              LET image == swapchainImages[swapchainImageIndex + 1]
                  cmds == recorded'
                  t == Touching(cmds, image)
              IN /\ Cardinality(t) = 3
                 /\ \E i, j \in t :
                        /\ i < j /\ j < Len(cmds)
                        /\ cmds[i].op = "barrier"
                        /\ cmds[i].oldLayout = "UNDEFINED"
                        /\ cmds[i].newLayout \in WritableLayouts
                        /\ cmds[j].op = "blit"
                        /\ cmds[j].src = MainDrawImage
                        /\ cmds[j].oldLayout = cmds[i].newLayout
                        /\ cmds[Len(cmds)].op = "barrier"
                        /\ cmds[Len(cmds)].image = image
                        /\ cmds[Len(cmds)].oldLayout = cmds[i].newLayout
                        /\ cmds[Len(cmds)].newLayout = "PRESENT_SRC_KHR"]_vars
    /\ [][PresentStep =>
              /\ Queued.kind = "present"
              /\ \A start \in Layouts :
                     LayoutAfter(recorded, swapchainImages[Queued.image + 1],
                                 start, Len(recorded)) = "PRESENT_SRC_KHR"]_vars

\* the second frame was recorded for an image of the chain that an earlier
\* frame has already presented, and its recording ends with the transition
\* to the presentable layout
C28_Witness ==
    /\ pc = "present"
    /\ frameNumber = 1
    /\ recorded # <<>>
    /\ recorded[Len(recorded)].image = swapchainImages[swapchainImageIndex + 1]
    /\ recorded[Len(recorded)].newLayout = "PRESENT_SRC_KHR"

\* the device keeps executing the work queued on it: an operation at the
\* head of the queue whose wait semaphore is signaled is eventually executed
FairSpec == Spec /\ WF_vars(GpuExecute)

\* a submission that signals the slot's fence is in the queue
SubmissionQueuedFor(slot) ==
    \E k \in SubmitOps : gpuQueue[k].slot = slot

\* C29: whenever the run loop is about to enter draw's wait on the current
\* slot's fence, the fence is signaled, or a submission for that slot is
\* queued and the fence becomes signaled.
C29_WaitFenceSatisfied ==
    \A s \in Slots :
        []((pc = "draw" /\ GetCurrentFrame(frameNumber) = s) =>
              (frames[s].fence \/ (SubmissionQueuedFor(s) /\ <>frames[s].fence)))

\* the slots whose command buffer is queued or executing
PendingSlots == {s \in Slots : frames[s].cmd = "pending"}

\* C30: the staleness exits of draw leave the queue as it is; an operation
\* leaves the queue only by being executed, and a submission that is executed
\* signals its slot's fence; and rebuildSwapchain destroys the slots and the
\* chain only with the queue empty and no command buffer pending.
C30_QueuedWorkCompletes ==
    /\ [][AcquireStaleStep =>
              gpuQueue' = gpuQueue /\ PendingSlots' = PendingSlots]_vars
    /\ [][PresentStaleStep =>
              /\ SubSeq(gpuQueue', 1, Len(gpuQueue)) = gpuQueue
              /\ PendingSlots' = PendingSlots]_vars
    /\ [][gpuQueue' # gpuQueue =>
              \/ IsPrefix(gpuQueue, gpuQueue')
              \/ /\ ExecuteStep
                 /\ Head(gpuQueue).kind = "submit" =>
                        /\ frames'[Head(gpuQueue).slot].fence
                        /\ Head(gpuQueue).slot \notin PendingSlots']_vars
    /\ [][RebuildStep =>
              /\ gpuQueue = <<>>
              /\ PendingSlots = {}
              /\ DestroyCalls' # {}]_vars

\* the first frame was submitted and presented out of date; its submission
\* and its present were executed, and then the rebuild replaced the slots
C30_Witness ==
    /\ pc = "draw"
    /\ rebuildCount = 1
    /\ submitCount = 1
    /\ lastDraw = "presented"
    /\ presentResult = VK_ERROR_OUT_OF_DATE_KHR
    /\ gpuQueue = <<>>
    /\ \A s \in Slots : frames[s].gen = swapchainGen

\* a step that takes the control thread to position p
Enters(p) == pc # p /\ pc' = p

\* C31: in every iteration the rebuild decision follows the event poll and
\* the draw follows the rebuild decision, and every rebuild gives the new
\* chain the size the window has at that moment.
C31_RebuildReadsLiveSize ==
    /\ [][Enters("check") => pc = "poll"]_vars
    /\ [][Enters("draw") => pc = "check"]_vars
    /\ [][Enters("acquire") => pc = "draw"]_vars
    /\ [][RebuildStep =>
              /\ pc = "check"
              /\ swapchainExtent' = windowSize']_vars

\* the window was resized after init, and the rebuild of this iteration
\* built the chain with the new size, not the one init was given
C31_Witness ==
    /\ pc = "draw"
    /\ loopRebuilds = 1
    /\ rebuildCount = 1
    /\ windowSize = "resized"
    /\ swapchainExtent = "resized"
    /\ mainDrawExtent = "configured"

\* C32: the flag goes up only in a draw step whose acquisition or
\* presentation reported staleness, it goes down only in a rebuild, it is
\* down whenever run calls draw, and once up it stays up until the control
\* thread has passed the rebuild of the next iteration.
C32_StaleFlagProtocol ==
    /\ [][(~swapchainStale /\ swapchainStale') =>
              (AcquireStaleStep \/ PresentStaleStep)]_vars
    /\ [][(swapchainStale /\ ~swapchainStale') =>
              (RebuildStep /\ pc = "check")]_vars
    /\ [][(AcquireStaleStep \/ PresentStaleStep) => swapchainStale']_vars
    /\ [](pc = "draw" => ~swapchainStale)
    /\ [](pc \in {"acquire", "record", "submit", "present"} =>
              ~swapchainStale)
    /\ []((pc \in {"poll", "check"} /\ lastDraw = "presented"
              /\ presentResult \in StaleCodes) => swapchainStale)

\* a suboptimal presentation raised the flag, the loop came round with the
\* flag still up, and the rebuild of that iteration lowered it before draw
C32_Witness ==
    /\ pc = "draw"
    /\ ~swapchainStale
    /\ loopRebuilds = 1
    /\ lastDraw = "presented"
    /\ presentResult = VK_SUBOPTIMAL_KHR
    /\ acquireResult = VK_SUCCESS

\* C33: a rebuild leaves frameNumber as it is and replaces every slot along
\* with the chain; after it nothing is queued or pending, every slot's fence
\* is signaled, every slot's image-acquired signal is unsignaled and no
\* slot's command buffer has been recorded, for the slot the next draw
\* selects and for every other.
C33_RebuildRenewsSlots ==
    [][RebuildStep =>
          /\ frameNumber' = frameNumber
          /\ gpuQueue' = <<>>
          /\ PendingSlots' = {}
          /\ GetCurrentFrame(frameNumber') \in Slots
          /\ \A s \in Slots :
                 /\ frames'[s].gen = swapchainGen'
                 /\ frames'[s].gen # frames[s].gen
                 /\ frames'[s].fence
                 /\ ~frames'[s].imageAvailable
                 /\ frames'[s].cmd = "initial"]_vars

\* frame 1 was aborted by a suboptimal acquisition, which had reset the
\* fence of slot 1 and signaled its image-acquired signal; the rebuild has
\* replaced both slots and the next draw selects slot 1 again
C33_Witness ==
    /\ pc = "draw"
    /\ loopRebuilds = 1
    /\ lastDraw = "staleAcquire"
    /\ acquireResult = VK_SUBOPTIMAL_KHR
    /\ frameNumber = 1
    /\ submitCount = 1
    /\ \A s \in Slots : frames[s].fence /\ ~frames[s].imageAvailable

\* C34: when draw requests an image with the slot's image-acquired signal,
\* the signal is unsignaled and no queued submission is still to wait on
\* it; the slot is either unused since its creation or its last submission
\* has been executed.
C34_AcquireSignalIdle ==
    [][AcquireStep =>
          /\ currentFrame = GetCurrentFrame(frameNumber)
          /\ ~frames[currentFrame].imageAvailable
          /\ ~SubmissionQueuedFor(currentFrame)
          /\ frames[currentFrame].cmd \in {"initial", "invalid"}]_vars

\* the third frame acquired an image with the signal of slot 0, which the
\* first frame had used, no rebuild having replaced it in between
C34_Witness ==
    /\ pc = "record"
    /\ frameNumber = FRAMES_IN_FLIGHT
    /\ rebuildCount = 0
    /\ submitCount = FRAMES_IN_FLIGHT
    /\ acquireResult = VK_SUCCESS
    /\ frames[currentFrame].imageAvailable
    /\ frames[currentFrame].cmd = "invalid"

\* the queued operations that signal or wait on a render-finished signal
UsersOf(sem) ==
    {k \in 1 .. Len(gpuQueue) :
         gpuQueue[k].kind \in {"submit", "present"} /\ gpuQueue[k].sem = sem}

\* C35: when a submission that signals the render-finished signal of image
\* index i is queued, the signal is unsignaled and no earlier submission or
\* present that uses it is still in the queue: the present of the earlier
\* frame with index i has executed.
C35_RenderFinishedConsumed ==
    [][SubmitStep =>
          /\ Queued.kind = "submit"
          /\ Queued.sem = renderFinishedSemaphores[swapchainImageIndex + 1]
          /\ Queued.sem \notin signaledSemaphores
          /\ UsersOf(Queued.sem) = {}]_vars

\* the layout the first n commands leave an image in: the new layout of the
\* latest transition of it, undefined when it has none
RECURSIVE LastLayout(_, _, _)
LastLayout(cmds, image, n) ==
    IF n = 0 THEN "UNDEFINED"
    ELSE IF cmds[n].op = "barrier" /\ cmds[n].image = image
         THEN cmds[n].newLayout
         ELSE LastLayout(cmds, image, n - 1)
\* the k-th command agrees with the layouts the commands before it left
LayoutAgrees(cmds, k) ==
    LET c == cmds[k]
        now == LastLayout(cmds, c.image, k - 1)
    IN IF c.op = "barrier"
       THEN c.oldLayout \in {"UNDEFINED", now}
       ELSE /\ c.oldLayout = now
            /\ c.op = "blit" => c.srcLayout = LastLayout(cmds, c.src, k - 1)

\* C36: in what a frame records after the setup-time transition, and after
\* the recording of the frame before it, every transition declares as old
\* layout undefined or the layout the image was left in, and every clear,
\* render, sampling and blit finds its images in the layout it declares.
C36_LayoutsConsistent ==
    [][RecordStep =>
          /\ \A k \in 1 .. Len(recorded') :
                 LayoutAgrees(SetupCommands \o recorded', Len(SetupCommands) + k)
          /\ \A k \in 1 .. Len(recorded') :
                 LayoutAgrees(SetupCommands \o recorded \o recorded',
                              Len(SetupCommands) + Len(recorded) + k)
          /\ \E k \in 1 .. Len(recorded') : recorded'[k].op = "sample"
          /\ \E k \in 1 .. Len(recorded') : recorded'[k].op = "blit"]_vars

\* the second frame is recorded for another image of the chain than the
\* first one, whose recording the command buffer of the other slot holds
C36_Witness ==
    /\ pc = "submit"
    /\ frameNumber = 1
    /\ submitCount = 1
    /\ swapchainImageIndex = 1
    /\ Len(recorded) = 14
    /\ recorded[Len(recorded)].image = swapchainImages[2]

\* the steps of the thread that runs Renderer::run
RunLoopStep ==
    \/ PollEvents
    \/ RebuildSwapchain
    \/ SkipRebuild
    \/ DrawWaitFence
    \/ DrawWaitFenceTimeout
    \/ DrawAcquire
    \/ DrawRecord
    \/ DrawSubmit
    \/ DrawSubmitFail
    \/ DrawPresent

\* the thread in run keeps going while the call it is in can return, and
\* the device keeps executing its queue
FairRunSpec == Spec /\ WF_vars(GpuExecute) /\ WF_vars(RunLoopStep)

\* positions of the control thread inside the loop of Renderer::run
LoopPositions == {"poll", "check"} \cup DrawPositions

\* C37: the quit signal is seen only by the poll; after it no further
\* iteration starts, the loop is left only with the signal seen and by the
\* return of a draw call, without the signal the loop is left only by a
\* fatal error, and once the signal is seen the loop is left.
C37_QuitEndsLoop ==
    /\ [][(~shouldQuit /\ shouldQuit') => (pc = "poll" /\ pc' = "check")]_vars
    /\ []((shouldQuit /\ pc \in LoopPositions) => pc # "poll")
    /\ [][Enters("cleanup") =>
              /\ shouldQuit
              /\ pc \in {"acquire", "present"}
              /\ drawCount' = drawCount + 1]_vars
    /\ [][(pc \in LoopPositions /\ pc' \notin LoopPositions /\ ~shouldQuit)
              => pc' = "fatal"]_vars
    /\ ((shouldQuit /\ pc \in LoopPositions) ~> (pc \notin LoopPositions))

\* a step in which a call of cleanup, or the first statement of init, ran
CleanupStep == pc = "cleanup" /\ pc' # "cleanup"
InitEntryStep == pc = "init" /\ pc' # "init"
\* the objects a cleanup log names
DestroyedByCleanup(log) ==
    {log[k] : k \in 1 .. Len(log)} \ {"vkDeviceWaitIdle"}

\* C38: whatever the order of the calls, cleanup destroys only objects that
\* are alive, init creates only objects that are not, init on an
\* initialized renderer changes nothing, and so does cleanup on a renderer
\* that was never initialized or that a cleanup has already torn down.
C38_InitCleanupIdempotent ==
    /\ [][(CleanupStep /\ cleanupLog' # <<>> /\ cleanupCalls' # cleanupCalls)
              => /\ DestroyedByCleanup(cleanupLog') \subseteq owned
                 /\ Destroyed(chainLog') \subseteq live]_vars
    /\ [][(CleanupStep /\ (~isInitialized \/ cleanupCalls > 0))
              => UNCHANGED <<ownVars, live, chainLog, cleanupCalls>>]_vars
    /\ [][(InitEntryStep /\ isInitialized)
              => UNCHANGED <<ownVars, live, chainLog, frames, chainVars>>]_vars
    /\ [][(InitEntryStep /\ pc' = "init_swapchain")
              => (owned \cap PlatformObjects = {})]_vars

====
